---- MODULE Spec2Model ----
(***************************************************************************)
(* Model of the ephemeral test-database manager of src/lib.rs: TestDb::new *)
(* (provisioning), TestDb::pool / client connections (steady state) and    *)
(* Drop for TestDb (teardown), together with the part of the database      *)
(* server the SQL statements of lib.rs act on: the set of databases, the   *)
(* migrations applied in each and the backends connected to each.          *)
(*                                                                         *)
(* Every instance runs in its own test process.  A panic inside            *)
(* TestDb::new unwinds through the local `tdb`, so Drop for TestDb runs    *)
(* for an instance whose construction failed; a panic inside that Drop     *)
(* aborts the process.                                                     *)
(***************************************************************************)
EXTENDS Naturals, FiniteSets, Sequences

\* Bounds of the model.
NumInst == 2
NumNames == 2
MaxClients == 1
NumMig == 2

Inst == 1..NumInst
Names == 1..NumNames
NoName == 0
NoInst == 0

\* The embedded migration set MIGRATIONS, by ascending version.
Migs == 1..NumMig

VARIABLES
    pc,        \* pc[i]: program point of instance i
    name,      \* name[i]: TestDb.dbname, NoName before TestDb::new runs
    created,   \* created[i]: the CREATE DATABASE of instance i succeeded
    adminConn, \* adminConn[i]: i holds an open connection to server_url()
    opConn,    \* opConn[i]: i holds an open connection to url()
    cause,     \* cause[i]: the step of TestDb::new that panicked, or "none"
    dcause,    \* dcause[i]: the step of Drop that panicked, or "none"
    log,       \* log[i]: the calls of instance i and their outcomes, in order
    owner,     \* owner[n]: the instance whose CREATE made database n, or NoInst
    applied,   \* applied[n]: the migrations applied in database n
    clients,   \* clients[n]: client backends (test code, pools) on database n
    coords,    \* coords[i]: TestDb.host, port, user and password
    cur,       \* cur[i]: the url of the connection the worker's `conn` denotes
    rows,      \* rows[n]: the rows of the todos table of database n, oldest first
    test,      \* the test function: program point, row inserted, rows loaded
    out        \* the observed call: its name and its argument or result

vars == <<pc, name, created, adminConn, opConn, cause, dcause, log, owner,
          applied, clients, coords, cur, rows, test, out>>

\* Uuid::new_v4(): any value of the identifier space; nothing in TestDb::new
\* compares the value with the names already in use.
NewUuid == Names

\* PgConnection::establish(url): Ok when the server is reachable and accepts
\* the credentials, Err otherwise.
Establish == BOOLEAN

\* The fields of an instance that TestDb::new has not built yet.
NoCoords == [host |-> << >>, port |-> 0, user |-> << >>, password |-> << >>]

\* The coordinates of the one server the instances are constructed against,
\* as the test passes them.  A text is a sequence of pieces of text; here each
\* field is one piece.
TestServer ==
    [host |-> <<"localhost">>,
     port |-> 15432,
     user |-> <<"postgres">>,
     password |-> <<"7cOPpA7dnc">>]

\* The databases that exist on the server.
dbs == {n \in Names : owner[n] # NoInst}

\* Backends whose datname is n: client backends and operational connections
\* of instances named n.  Administrative connections select no ephemeral
\* database, so they are backends of none of the names.
OpBackends(n) == {j \in Inst : opConn[j] /\ name[j] = n}
Backends(n) == clients[n] + Cardinality(OpBackends(n))

\* The datname of an administrative connection: server_url() names no
\* database, so it is none of the ephemeral names.
AdminDatname == NoName

\* The program points inside TestDb::new.
NewStates == {"idle", "n_named", "n_admin", "n_created", "n_op", "n_reverted"}

\* The program points inside Drop for TestDb.
DropStates == {"d_start", "d_admin", "d_term"}

\* The program points after Drop for TestDb.
EndStates == {"torn_down", "d_failed", "panicked", "aborted"}

\* TestDb::new returned the instance: the caller holds (or held) it and so
\* knows url().
Returned(i) == pc[i] \notin NewStates /\ cause[i] = "none"

\* Drop runs while the panic of TestDb::new unwinds: a panic inside Drop then
\* aborts the process.
Unwinding(i) == cause[i] # "none"

\* Instance i makes call e (a connection attempt or an SQL statement; the
\* suffix _err marks an Err result).
Issue(i, e) == log' = [log EXCEPT ![i] = Append(@, e)]

\* The connection that the worker's variable `conn` denotes is open.
ConnOpen(i) ==
    \/ cur[i] = "server_url" /\ adminConn[i]
    \/ cur[i] = "url" /\ opConn[i]

\* The lower parts of a set of migrations: what is left of it, or added from
\* it, when steps taken in version order stop early.
LowerParts(S) == {T \in SUBSET S : \A a \in T, b \in S : b < a => b \in T}

\* The todos table exists in database n: the seeded migrations are applied.
TableExists(n) == n \in dbs /\ applied[n] = Migs

\* The rows of the todos table right after the migrations created it.
SeededRows == << >>

\* Nothing has been called or observed.
NoOut == [fn |-> "none"]

\* The test function has not run.
NoTest == [pc |-> "start", sent |-> << >>, got |-> << >>]

Init ==
    /\ pc = [i \in Inst |-> "idle"]
    /\ name = [i \in Inst |-> NoName]
    /\ created = [i \in Inst |-> FALSE]
    /\ adminConn = [i \in Inst |-> FALSE]
    /\ opConn = [i \in Inst |-> FALSE]
    /\ cause = [i \in Inst |-> "none"]
    /\ dcause = [i \in Inst |-> "none"]
    /\ log = [i \in Inst |-> << >>]
    /\ owner = [n \in Names |-> NoInst]
    /\ applied = [n \in Names |-> {}]
    /\ clients = [n \in Names |-> 0]
    /\ coords = [i \in Inst |-> NoCoords]
    /\ cur = [i \in Inst |-> "none"]
    /\ rows = [n \in Names |-> << >>]
    /\ test = NoTest
    /\ out = NoOut

----
\* TestDb::new

\* Lines 33-58: the fields are taken from the arguments, the name is
\* generated, the instance built and the worker spawned.
New(i) ==
    /\ pc[i] = "idle"
    /\ \E n \in NewUuid : name' = [name EXCEPT ![i] = n]
    /\ coords' = [coords EXCEPT ![i] = TestServer]
    /\ pc' = [pc EXCEPT ![i] = "n_named"]
    /\ UNCHANGED <<created, adminConn, opConn, cause, dcause, log, owner,
                   applied, clients, cur, rows, test, out>>

\* A panic in the worker of TestDb::new: the worker's connections are dropped,
\* join() returns Err, expect() panics and the unwinding drops `tdb`, which
\* starts Drop for TestDb.
NewPanics(i, why) ==
    /\ cause' = [cause EXCEPT ![i] = why]
    /\ adminConn' = [adminConn EXCEPT ![i] = FALSE]
    /\ opConn' = [opConn EXCEPT ![i] = FALSE]
    /\ cur' = [cur EXCEPT ![i] = "none"]
    /\ pc' = [pc EXCEPT ![i] = "d_start"]

\* Mutant of EstablishErr: a failed connection is attempted again.
EstablishErr_retry(i, why) == UNCHANGED <<pc, cause, adminConn, opConn, cur>>

\* establish_connection, lines 98-100: an Err of establish panics.
EstablishErr(i, why) == NewPanics(i, why)

\* Line 61: let mut conn = establish_connection(&server_url) in the worker.
NewConnect(i) ==
    /\ pc[i] = "n_named"
    /\ \E ok \in Establish :
          IF ok
          THEN /\ adminConn' = [adminConn EXCEPT ![i] = TRUE]
               /\ cur' = [cur EXCEPT ![i] = "server_url"]
               /\ pc' = [pc EXCEPT ![i] = "n_admin"]
               /\ Issue(i, "connect_server")
               /\ UNCHANGED <<opConn, cause>>
          ELSE /\ EstablishErr(i, "connect")
               /\ Issue(i, "connect_server_err")
    /\ UNCHANGED <<name, created, dcause, owner, applied, clients, coords,
                   rows, test, out>>

\* Mutant of CanCreate: creation goes through over an existing database.
CanCreate_always(n) == TRUE

\* CREATE DATABASE "n" succeeds when no database n exists.
CanCreate(n) == owner[n] = NoInst

\* Lines 62-64: CREATE DATABASE executed on `conn`, .expect(): an Err panics
\* the worker.  The new database is empty.
NewCreate(i) ==
    /\ pc[i] = "n_admin"
    /\ IF ConnOpen(i) /\ CanCreate(name[i])
       THEN /\ owner' = [owner EXCEPT ![name[i]] = i]
            /\ applied' = [applied EXCEPT ![name[i]] = {}]
            /\ rows' = [rows EXCEPT ![name[i]] = << >>]
            /\ created' = [created EXCEPT ![i] = TRUE]
            /\ pc' = [pc EXCEPT ![i] = "n_created"]
            /\ Issue(i, "create")
            /\ UNCHANGED <<adminConn, opConn, cause, cur>>
       ELSE /\ NewPanics(i, "create")
            /\ Issue(i, "create_err")
            /\ UNCHANGED <<owner, applied, rows, created>>
    /\ UNCHANGED <<name, dcause, clients, coords, test, out>>

\* Mutant of ShadowConn: the second connection gets a name of its own and
\* `conn` still denotes the first.
ShadowConn_kept == "server_url"

\* Line 66, let mut conn = ...: `conn` now denotes the connection to url();
\* the first connection stays open until the block ends.
ShadowConn == "url"

\* Line 66: establish_connection(&url) in the worker.
NewConnectDb(i) ==
    /\ pc[i] = "n_created"
    /\ \E ok \in Establish :
          IF ok /\ name[i] \in dbs
          THEN /\ opConn' = [opConn EXCEPT ![i] = TRUE]
               /\ cur' = [cur EXCEPT ![i] = ShadowConn]
               /\ pc' = [pc EXCEPT ![i] = "n_op"]
               /\ Issue(i, "connect_db")
               /\ UNCHANGED <<adminConn, cause>>
          ELSE /\ EstablishErr(i, "connect_db")
               /\ Issue(i, "connect_db_err")
    /\ UNCHANGED <<name, created, dcause, owner, applied, clients, coords,
                   rows, test, out>>

\* Mutant of NewReturns: the connection to url() is kept open after the block.
NewReturns_leak(i) ==
    /\ adminConn' = [adminConn EXCEPT ![i] = FALSE]
    /\ cur' = [cur EXCEPT ![i] = "none"]
    /\ pc' = [pc EXCEPT ![i] = "ready"]
    /\ UNCHANGED <<cause, opConn>>

\* Lines 69-74 after run_migrations returned Ok: the block ends and drops both
\* connections, the worker ends, join() returns Ok and `tdb` is returned.
NewReturns(i) ==
    /\ adminConn' = [adminConn EXCEPT ![i] = FALSE]
    /\ opConn' = [opConn EXCEPT ![i] = FALSE]
    /\ cur' = [cur EXCEPT ![i] = "none"]
    /\ pc' = [pc EXCEPT ![i] = "ready"]
    /\ UNCHANGED cause

\* Mutant of UnwrapErr: the Err of run_migrations is discarded.
UnwrapErr_ignored(i, why) == NewReturns(i)

\* Line 68, run_migrations(&mut conn).unwrap(): an Err panics the worker.
UnwrapErr(i, why) == NewPanics(i, why)

\* Mutant of NewRevert: nothing is reverted.
NewRevert_skip(i) ==
    /\ pc[i] = "n_op"
    /\ pc' = [pc EXCEPT ![i] = "n_reverted"]
    /\ Issue(i, "revert")
    /\ UNCHANGED <<applied, rows, adminConn, opConn, cause, cur>>
    /\ UNCHANGED <<name, created, dcause, owner, clients, coords, test, out>>

\* run_migrations, line 25: revert_all_migrations(MIGRATIONS)? on `conn`.  The
\* applied migrations are reverted newest first, so a failure leaves a lower
\* part of them; the reverted migrations take the table and its rows along.
NewRevert(i) ==
    /\ pc[i] = "n_op"
    /\ \/ /\ ConnOpen(i)
          /\ applied' = [applied EXCEPT ![name[i]] = {}]
          /\ rows' = [rows EXCEPT ![name[i]] = << >>]
          /\ pc' = [pc EXCEPT ![i] = "n_reverted"]
          /\ Issue(i, "revert")
          /\ UNCHANGED <<adminConn, opConn, cause, cur>>
       \/ /\ IF ConnOpen(i)
             THEN \E T \in LowerParts(applied[name[i]]) :
                      /\ applied' = [applied EXCEPT ![name[i]] = T]
                      /\ rows' = [rows EXCEPT ![name[i]] =
                                     IF T = Migs THEN @ ELSE << >>]
             ELSE UNCHANGED <<applied, rows>>
          /\ UnwrapErr(i, "revert")
          /\ Issue(i, "revert_err")
    /\ UNCHANGED <<name, created, dcause, owner, clients, coords, test, out>>

\* Mutant of NewApply: the pending migrations are not run.
NewApply_norun(i) ==
    /\ pc[i] = "n_reverted"
    /\ NewReturns(i)
    /\ UNCHANGED <<name, created, dcause, log, owner, applied, clients,
                   coords, rows, test, out>>

\* run_migrations, line 26: run_pending_migrations(MIGRATIONS)? on `conn`.
\* The pending migrations are applied oldest first, each in its own
\* transaction, so a failure leaves a lower part of them applied and at
\* least one pending.
NewApply(i) ==
    /\ pc[i] = "n_reverted"
    /\ \/ /\ ConnOpen(i)
          /\ applied' = [applied EXCEPT ![name[i]] = Migs]
          /\ rows' = [rows EXCEPT ![name[i]] = SeededRows]
          /\ NewReturns(i)
          /\ Issue(i, "apply")
       \/ /\ IF ConnOpen(i)
             THEN \E T \in LowerParts(Migs \ applied[name[i]]) :
                      /\ applied[name[i]] \cup T # Migs
                      /\ applied' = [applied EXCEPT ![name[i]] = @ \cup T]
             ELSE UNCHANGED applied
          /\ UNCHANGED rows
          /\ UnwrapErr(i, "apply")
          /\ Issue(i, "apply_err")
    /\ UNCHANGED <<name, created, dcause, owner, clients, coords, test, out>>

----
\* Steady state: the caller uses the instance.

\* TestDb::pool: r2d2 builds the pool, which opens its connections to url().
\* When the build fails, expect() panics in the caller and the unwinding drops
\* the instance: that is Dispose below.
Pool(i) ==
    /\ pc[i] = "ready"
    /\ name[i] \in dbs
    /\ clients[name[i]] < MaxClients
    /\ \E k \in 1..(MaxClients - clients[name[i]]) :
           clients' = [clients EXCEPT ![name[i]] = @ + k]
    /\ UNCHANGED <<pc, name, created, adminConn, opConn, cause, dcause, log,
                   owner, applied, coords, cur, rows, test, out>>

\* Test code, or a pool replacing a lost connection, connects to url().
ClientConnect(n) ==
    /\ \E i \in Inst : Returned(i) /\ name[i] = n
    /\ n \in dbs
    /\ clients[n] < MaxClients
    /\ clients' = [clients EXCEPT ![n] = @ + 1]
    /\ UNCHANGED <<pc, name, created, adminConn, opConn, cause, dcause, log,
                   owner, applied, coords, cur, rows, test, out>>

\* A client connection is closed by its holder.
ClientClose(n) ==
    /\ clients[n] > 0
    /\ clients' = [clients EXCEPT ![n] = @ - 1]
    /\ UNCHANGED <<pc, name, created, adminConn, opConn, cause, dcause, log,
                   owner, applied, coords, cur, rows, test, out>>

\* The instance goes out of scope in the caller, at the end of the scope or
\* when a panic of the caller unwinds: Drop for TestDb starts.
Dispose(i) ==
    /\ pc[i] = "ready"
    /\ pc' = [pc EXCEPT ![i] = "d_start"]
    /\ UNCHANGED <<name, created, adminConn, opConn, cause, dcause, log, owner,
                   applied, clients, coords, cur, rows, test, out>>

----
\* Drop for TestDb

\* Mutant of DropPanics: the Err of join() is discarded and drop() returns.
DropPanics_swallowed(i, why) ==
    /\ dcause' = [dcause EXCEPT ![i] = why]
    /\ adminConn' = [adminConn EXCEPT ![i] = FALSE]
    /\ cur' = [cur EXCEPT ![i] = "none"]
    /\ pc' = [pc EXCEPT ![i] = IF Unwinding(i) THEN "panicked" ELSE "torn_down"]

\* A panic in the worker of Drop: its connection is dropped, join() returns
\* Err and expect("Failed to join thread") panics in drop().  While another
\* panic unwinds, that second panic aborts the process.
DropPanics(i, why) ==
    /\ dcause' = [dcause EXCEPT ![i] = why]
    /\ adminConn' = [adminConn EXCEPT ![i] = FALSE]
    /\ cur' = [cur EXCEPT ![i] = "none"]
    /\ pc' = [pc EXCEPT ![i] = IF Unwinding(i) THEN "aborted" ELSE "d_failed"]

\* Lines 118-122 after DROP DATABASE succeeded: the connection is dropped, the
\* worker ends, join() returns Ok and drop() returns; an unwinding panic then
\* goes on to the caller.
DropReturns(i) ==
    /\ adminConn' = [adminConn EXCEPT ![i] = FALSE]
    /\ cur' = [cur EXCEPT ![i] = "none"]
    /\ pc' = [pc EXCEPT ![i] = IF Unwinding(i) THEN "panicked" ELSE "torn_down"]
    /\ UNCHANGED dcause

\* Line 109: let mut conn = establish_connection(&server_url) in the worker
\* of Drop.
DropConnect(i) ==
    /\ pc[i] = "d_start"
    /\ \E ok \in Establish :
          IF ok
          THEN /\ adminConn' = [adminConn EXCEPT ![i] = TRUE]
               /\ cur' = [cur EXCEPT ![i] = "server_url"]
               /\ pc' = [pc EXCEPT ![i] = "d_admin"]
               /\ Issue(i, "drop_connect_server")
               /\ UNCHANGED dcause
          ELSE /\ DropPanics(i, "connect")
               /\ Issue(i, "drop_connect_server_err")
    /\ UNCHANGED <<name, created, opConn, cause, owner, applied, clients,
                   coords, rows, test, out>>

\* Mutant of TermMatches: the query has no datname condition.
TermMatches_all(i, m) == TRUE

\* Line 111, datname = '{db_name}': the backends of database m are matched by
\* instance i's query.
TermMatches(i, m) == m = name[i]

\* Line 111, pid <> pg_backend_pid(): the administrative connection of
\* instance j is not the connection that runs instance i's query.
NotOwnBackend(i, j) == j # i

\* Mutant of ExpectTerminate: the Err of the termination query is discarded.
ExpectTerminate_ignored(i, why) ==
    /\ pc' = [pc EXCEPT ![i] = "d_term"]
    /\ UNCHANGED <<adminConn, dcause, clients, opConn, cur>>

\* Line 113, .expect() on the termination query: an Err panics the worker.
ExpectTerminate(i, why) ==
    /\ DropPanics(i, why)
    /\ UNCHANGED <<clients, opConn>>

\* Mutant of DropTerminate: the query lacks the pid condition and runs on a
\* connection to the database itself, so it terminates its own backend.
DropTerminate_self(i) ==
    /\ pc[i] = "d_admin"
    /\ clients' = [m \in Names |-> IF TermMatches(i, m) THEN 0 ELSE clients[m]]
    /\ opConn' = [j \in Inst |->
                     IF name[j] \in Names /\ TermMatches(i, name[j])
                     THEN FALSE ELSE opConn[j]]
    /\ adminConn' = [adminConn EXCEPT ![i] = FALSE]
    /\ pc' = [pc EXCEPT ![i] = "d_term"]
    /\ Issue(i, "terminate")
    /\ UNCHANGED <<dcause, cur>>
    /\ UNCHANGED <<name, created, cause, owner, applied, coords, rows, test,
                   out>>

\* Lines 111-113: the termination query, executed on `conn`.
DropTerminate(i) ==
    /\ pc[i] = "d_admin"
    /\ \/ /\ ConnOpen(i)
          /\ clients' = [m \in Names |-> IF TermMatches(i, m) THEN 0 ELSE clients[m]]
          /\ opConn' = [j \in Inst |->
                           IF name[j] \in Names /\ TermMatches(i, name[j])
                           THEN FALSE ELSE opConn[j]]
          /\ adminConn' = [j \in Inst |->
                              IF TermMatches(i, AdminDatname) /\ NotOwnBackend(i, j)
                              THEN FALSE ELSE adminConn[j]]
          /\ pc' = [pc EXCEPT ![i] = "d_term"]
          /\ Issue(i, "terminate")
          /\ UNCHANGED <<dcause, cur>>
       \/ /\ ExpectTerminate(i, "terminate")
          /\ Issue(i, "terminate_err")
    /\ UNCHANGED <<name, created, cause, owner, applied, coords, rows, test,
                   out>>

\* Mutant of CanDrop: DROP DATABASE ... WITH (FORCE).
CanDrop_force(n) == n \in dbs

\* DROP DATABASE "n" succeeds when database n exists and no other session is
\* connected to it.
CanDrop(n) == n \in dbs /\ Backends(n) = 0

\* Mutant of ExpectDrop: the Err of DROP DATABASE is discarded.
ExpectDrop_ignored(i, why) == DropReturns(i)

\* Line 117, .expect() on DROP DATABASE: an Err panics the worker.
ExpectDrop(i, why) == DropPanics(i, why)

\* Lines 115-117: DROP DATABASE, executed on `conn`.
DropDatabase(i) ==
    /\ pc[i] = "d_term"
    /\ IF ConnOpen(i) /\ CanDrop(name[i])
       THEN /\ owner' = [owner EXCEPT ![name[i]] = NoInst]
            /\ applied' = [applied EXCEPT ![name[i]] = {}]
            /\ rows' = [rows EXCEPT ![name[i]] = << >>]
            /\ DropReturns(i)
            /\ Issue(i, "drop")
       ELSE /\ ExpectDrop(i, IF ~ConnOpen(i) THEN "closed"
                             ELSE IF name[i] \in dbs THEN "busy" ELSE "missing")
            /\ Issue(i, "drop_err")
            /\ UNCHANGED <<owner, applied, rows>>
    /\ UNCHANGED <<name, created, opConn, cause, clients, coords, test, out>>

Next ==
    \/ \E i \in Inst : New(i)
    \/ \E i \in Inst : NewConnect(i)
    \/ \E i \in Inst : NewCreate(i)
    \/ \E i \in Inst : NewConnectDb(i)
    \/ \E i \in Inst : NewRevert(i)
    \/ \E i \in Inst : NewApply(i)
    \/ \E i \in Inst : Pool(i)
    \/ \E n \in Names : ClientConnect(n)
    \/ \E n \in Names : ClientClose(n)
    \/ \E i \in Inst : Dispose(i)
    \/ \E i \in Inst : DropConnect(i)
    \/ \E i \in Inst : DropTerminate(i)
    \/ \E i \in Inst : DropDatabase(i)

Spec == Init /\ [][Next]_vars

TypeOK ==
    /\ pc \in [Inst -> NewStates \cup DropStates \cup EndStates \cup {"ready"}]
    /\ name \in [Inst -> Names \cup {NoName}]
    /\ owner \in [Names -> Inst \cup {NoInst}]
    /\ applied \in [Names -> SUBSET Migs]
    /\ cur \in [Inst -> {"none", "server_url", "url"}]
    /\ clients \in [Names -> 0..MaxClients]
    /\ \A i \in Inst : Len(log[i]) <= 9

----
\* run_migrations on a database in any recorded state

\* The instance the caller holds: `tdb` of the test.
Tdb == 1

\* The worker of TestDb::new is about to call run_migrations(&mut conn) on a
\* database in which any set of migrations is recorded as applied.
InitMig ==
    \E n \in Names, S \in SUBSET Migs :
        /\ pc = [i \in Inst |-> IF i = Tdb THEN "n_op" ELSE "idle"]
        /\ name = [i \in Inst |-> IF i = Tdb THEN n ELSE NoName]
        /\ created = [i \in Inst |-> i = Tdb]
        /\ adminConn = [i \in Inst |-> i = Tdb]
        /\ opConn = [i \in Inst |-> i = Tdb]
        /\ cause = [i \in Inst |-> "none"]
        /\ dcause = [i \in Inst |-> "none"]
        /\ log = [i \in Inst |->
                     IF i = Tdb THEN <<"connect_server", "create", "connect_db">>
                     ELSE << >>]
        /\ owner = [m \in Names |-> IF m = n THEN Tdb ELSE NoInst]
        /\ applied = [m \in Names |-> IF m = n THEN S ELSE {}]
        /\ clients = [m \in Names |-> 0]
        /\ coords = [i \in Inst |-> IF i = Tdb THEN TestServer ELSE NoCoords]
        /\ cur = [i \in Inst |-> IF i = Tdb THEN "url" ELSE "none"]
        /\ rows = [m \in Names |-> << >>]
        /\ test = NoTest
        /\ out = [fn |-> "run_migrations", before |-> S]

NextMig ==
    \/ NewRevert(Tdb)
    \/ NewApply(Tdb)
    \/ Dispose(Tdb)
    \/ DropConnect(Tdb)
    \/ DropTerminate(Tdb)
    \/ DropDatabase(Tdb)

SpecMig == InitMig /\ [][NextMig]_vars

----
\* test_db_should_create_and_drop

\* Lines 156-161: the row the test inserts.
NewTodos == [title |-> "test", completed |-> TRUE]

\* A panic in the test function, or the end of its scope: `conn`, if it was
\* opened, is dropped first and `tdb` after it, which starts Drop for TestDb.
TestUnwinds(held, to) ==
    /\ clients' = [clients EXCEPT ![name[Tdb]] = @ - held]
    /\ pc' = [pc EXCEPT ![Tdb] = "d_start"]
    /\ test' = [test EXCEPT !.pc = to]

\* Line 153: let mut conn = establish_connection(&tdb.url()).
TestConnect ==
    /\ test.pc = "start"
    /\ pc[Tdb] = "ready"
    /\ \E ok \in Establish :
          IF ok /\ name[Tdb] \in dbs
          THEN /\ clients' = [clients EXCEPT ![name[Tdb]] = @ + 1]
               /\ test' = [test EXCEPT !.pc = "connected"]
               /\ UNCHANGED pc
          ELSE TestUnwinds(0, "failed")
    /\ UNCHANGED <<name, created, adminConn, opConn, cause, dcause, log, owner,
                   applied, coords, cur, rows, out>>

\* Mutant of TestInsert: the statement is built and never executed.
TestInsert_lost ==
    /\ test.pc = "connected"
    /\ test' = [test EXCEPT !.pc = "inserted", !.sent = NewTodos]
    /\ UNCHANGED <<pc, name, created, adminConn, opConn, cause, dcause, log,
                   owner, applied, clients, coords, cur, rows, out>>

\* Lines 162-165: insert_into(todos).values(&todo).execute(&mut conn)
\* .expect(): an Err panics the test.
TestInsert ==
    /\ test.pc = "connected"
    /\ \/ /\ TableExists(name[Tdb])
          /\ rows' = [rows EXCEPT ![name[Tdb]] = Append(@, NewTodos)]
          /\ test' = [test EXCEPT !.pc = "inserted", !.sent = NewTodos]
          /\ UNCHANGED <<pc, clients>>
       \/ /\ TestUnwinds(1, "failed")
          /\ UNCHANGED rows
    /\ UNCHANGED <<name, created, adminConn, opConn, cause, dcause, log, owner,
                   applied, coords, cur, out>>

\* The results of todos.limit(1): no row of an empty table, any one row
\* otherwise.
Limit1(t) == IF t = << >> THEN {<< >>} ELSE {<<t[k]>> : k \in 1..Len(t)}

\* Lines 168-171: todos.limit(1).load::<Todo>(&mut conn).expect(): an Err
\* panics the test.
TestQuery ==
    /\ test.pc = "inserted"
    /\ \/ /\ TableExists(name[Tdb])
          /\ \E r \in Limit1(rows[name[Tdb]]) :
                 test' = [test EXCEPT !.pc = "queried", !.got = r]
          /\ UNCHANGED <<pc, clients>>
       \/ TestUnwinds(1, "failed")
    /\ UNCHANGED <<name, created, adminConn, opConn, cause, dcause, log, owner,
                   applied, coords, cur, rows, out>>

\* Lines 172-173: assert_eq!(results.len(), 1) and the end of the scope.
TestEnd ==
    /\ test.pc = "queried"
    /\ TestUnwinds(1, IF Len(test.got) = 1 THEN "done" ELSE "failed")
    /\ UNCHANGED <<name, created, adminConn, opConn, cause, dcause, log, owner,
                   applied, coords, cur, rows, out>>

NextTest ==
    \/ New(Tdb)
    \/ NewConnect(Tdb)
    \/ NewCreate(Tdb)
    \/ NewConnectDb(Tdb)
    \/ NewRevert(Tdb)
    \/ NewApply(Tdb)
    \/ TestConnect
    \/ TestInsert
    \/ TestQuery
    \/ TestEnd
    \/ DropConnect(Tdb)
    \/ DropTerminate(Tdb)
    \/ DropDatabase(Tdb)

SpecTest == Init /\ [][NextTest]_vars

----
\* The getters of a ready instance

\* The literal text of the format strings, character by character.
Scheme == <<"p", "o", "s", "t", "g", "r", "e", "s", ":", "/", "/">>

DigitChars == <<"0", "1", "2", "3", "4", "5", "6", "7", "8", "9">>

\* Display for an unsigned integer: its decimal digits, no sign, no padding.
RECURSIVE Digits(_)
Digits(n) ==
    IF n < 10 THEN <<DigitChars[n + 1]>>
    ELSE Digits(n \div 10) \o <<DigitChars[(n % 10) + 1]>>

\* Line 45, format!("test_{}", uuid): the database name of identifier n.
DbName(n) == <<"t", "e", "s", "t", "_">> \o Digits(n)

\* Mutant of ServerUrl: the password segment is written whatever the password.
ServerUrl_colon(c) ==
    Scheme \o c.user \o <<":">> \o c.password \o <<"@">> \o c.host \o <<":">>
           \o Digits(c.port)

\* TestDb::server_url, lines 77-86.
ServerUrl(c) ==
    IF c.password = << >>
    THEN Scheme \o c.user \o <<"@">> \o c.host \o <<":">> \o Digits(c.port)
    ELSE Scheme \o c.user \o <<":">> \o c.password \o <<"@">> \o c.host
                \o <<":">> \o Digits(c.port)

\* TestDb::url, lines 88-90.
Url(c, n) == ServerUrl(c) \o <<"/">> \o DbName(n)

\* The arguments TestDb::new is called with: a u16 port and three strings,
\* the password possibly empty.
Hosts == {<<"h">>, <<"d", "b", ".", "x">>}
Ports == {0, 80, 15432, 65535}
Users == {<<"u">>, <<"p", "g">>}
Passwords == {<< >>, <<"s">>, <<"7", "c">>}

\* TestDb::new returned instance Tdb: the state in which the caller holds it.
InitUse ==
    \E n \in NewUuid, h \in Hosts, p \in Ports, u \in Users, w \in Passwords :
        /\ pc = [i \in Inst |-> IF i = Tdb THEN "ready" ELSE "idle"]
        /\ name = [i \in Inst |-> IF i = Tdb THEN n ELSE NoName]
        /\ created = [i \in Inst |-> i = Tdb]
        /\ adminConn = [i \in Inst |-> FALSE]
        /\ opConn = [i \in Inst |-> FALSE]
        /\ cause = [i \in Inst |-> "none"]
        /\ dcause = [i \in Inst |-> "none"]
        /\ log = [i \in Inst |->
                     IF i = Tdb
                     THEN <<"connect_server", "create", "connect_db", "revert",
                            "apply">>
                     ELSE << >>]
        /\ owner = [m \in Names |-> IF m = n THEN Tdb ELSE NoInst]
        /\ applied = [m \in Names |-> IF m = n THEN Migs ELSE {}]
        /\ clients = [m \in Names |-> 0]
        /\ coords = [i \in Inst |->
                        IF i = Tdb
                        THEN [host |-> h, port |-> p, user |-> u, password |-> w]
                        ELSE NoCoords]
        /\ cur = [i \in Inst |-> "none"]
        /\ rows = [m \in Names |-> SeededRows]
        /\ test = NoTest
        /\ out = NoOut

\* A call of tdb.server_url().
ServerUrlCall(i) ==
    /\ pc[i] = "ready"
    /\ out' = [fn |-> "server_url", val |-> ServerUrl(coords[i])]
    /\ UNCHANGED <<pc, name, created, adminConn, opConn, cause, dcause, log,
                   owner, applied, clients, coords, cur, rows, test>>

\* Mutant of UrlCall: the name is generated anew at each call.
UrlCall_renamed(i) ==
    /\ pc[i] = "ready"
    /\ \E n \in NewUuid :
          /\ name' = [name EXCEPT ![i] = n]
          /\ out' = [fn |-> "url", val |-> Url(coords[i], n)]
    /\ UNCHANGED <<pc, created, adminConn, opConn, cause, dcause, log, owner,
                   applied, clients, coords, cur, rows, test>>

\* A call of tdb.url().
UrlCall(i) ==
    /\ pc[i] = "ready"
    /\ out' = [fn |-> "url", val |-> Url(coords[i], name[i])]
    /\ UNCHANGED <<pc, name, created, adminConn, opConn, cause, dcause, log,
                   owner, applied, clients, coords, cur, rows, test>>

NextUse ==
    \/ ServerUrlCall(Tdb)
    \/ UrlCall(Tdb)
    \/ Pool(Tdb)
    \/ \E n \in Names : ClientConnect(n)
    \/ \E n \in Names : ClientClose(n)

SpecUse == InitUse /\ [][NextUse]_vars

----
\* Properties

\* Instance i made call e.
Has(i, e) == LET l == log[i] IN \E k \in DOMAIN l : l[k] = e

\* The number of times instance i made call e.
Count(i, e) == Cardinality({k \in 1..Len(log[i]) : log[i][k] = e})

\* C1: in the step in which TestDb::new returns the instance, the database of
\* the instance's name exists on the server and has the full migration set
\* applied, and the instance's own CREATE DATABASE and both migration steps
\* have succeeded; the instance is never returned from a state in which the
\* database is only named, only created or partly migrated.
C1_NewReturnsProvisioned ==
    [][\A i \in Inst :
         (pc[i] \in NewStates /\ pc'[i] = "ready")
         => /\ name'[i] \in dbs'
            /\ applied'[name'[i]] = Migs
            /\ log'[i] = <<"connect_server", "create", "connect_db", "revert", "apply">>]_vars

C1_Witness ==
    \E i \in Inst :
        /\ pc[i] = "ready"
        /\ owner[name[i]] = i
        /\ applied[name[i]] = Migs

\* C2: in the step in which Drop for TestDb of a returned instance returns
\* normally, the database of the instance's name does not exist on the server
\* and no backend is connected to a database of that name.
C2_DisposalRemovesDatabase ==
    [][\A i \in Inst :
         (pc[i] \in DropStates /\ pc'[i] = "torn_down")
         => /\ name[i] \notin dbs'
            /\ clients'[name[i]] = 0
            /\ \A j \in Inst : ~(opConn'[j] /\ name'[j] = name[i])]_vars

C2_Witness ==
    \E i \in Inst :
        /\ pc[i] = "torn_down"
        /\ Has(i, "terminate")
        /\ name[i] \notin dbs
        /\ Backends(name[i]) = 0

\* C3: no disposal of a returned instance fails because client connections to
\* its database are open when DROP DATABASE runs: lingering clients never
\* prevent the teardown from completing.
C3_ClientsNeverBlockTeardown ==
    \A i \in Inst : ~(pc[i] = "d_failed" /\ dcause[i] = "busy")

\* C4: in every disposal the calls are, in this order, the connection to the
\* server endpoint, the termination query and DROP DATABASE, all while the
\* one administrative connection is open: DROP DATABASE is issued only right
\* after a termination query that succeeded, and nothing is issued after a
\* termination query that failed.
C4_TeardownOrder ==
    \A i \in Inst :
        LET l == log[i] IN
        /\ \A k \in DOMAIN l :
              LET e == l[k] IN
              /\ (e = "drop" \/ e = "drop_err")
                 => k >= 3 /\ l[k-1] = "terminate"
                           /\ l[k-2] = "drop_connect_server"
              /\ (e = "terminate" \/ e = "terminate_err")
                 => k >= 2 /\ l[k-1] = "drop_connect_server"
              /\ e = "terminate_err" => k = Len(l)
        /\ pc[i] \in {"d_admin", "d_term"} => adminConn[i] /\ ~opConn[i]

C4_Witness ==
    \E i, j \in Inst :
        /\ Has(i, "drop")
        /\ Has(j, "terminate_err")

C6_UnreachableFailsBeforeCreate ==
    \A i \in Inst :
        Has(i, "connect_server_err")
        => /\ pc[i] \in DropStates \cup {"panicked", "aborted"}
           /\ cause[i] = "connect"
           /\ Count(i, "connect_server_err") = 1
           /\ ~Has(i, "connect_server")
           /\ ~Has(i, "create") /\ ~Has(i, "create_err")
           /\ ~created[i]
           /\ \A n \in Names : owner[n] # i

C6_Witness ==
    \E i \in Inst :
        /\ Has(i, "connect_server_err")
        /\ pc[i] \in {"panicked", "aborted"}

\* C7: when a migration step (revert or apply) fails in TestDb::new, no
\* instance is returned: the constructor panics and the instance is never
\* ready.
C7_MigrationFailureNotReady ==
    \A i \in Inst :
        (LET l == log[i] IN
         \E k \in DOMAIN l : l[k] = "revert_err" \/ l[k] = "apply_err")
        => /\ pc[i] \in DropStates \cup {"panicked", "aborted"}
           /\ cause[i] \in {"revert", "apply"}
           /\ ~Returned(i)

C7_Witness ==
    \E i \in Inst :
        /\ Has(i, "apply_err")
        /\ applied[name[i]] # Migs
        /\ owner[name[i]] = i

\* C8: when the connection, the termination query or DROP DATABASE fails in
\* Drop for TestDb, drop() does not return normally: it ends in a panic, or in
\* an abort when it runs during an unwinding.
C8_TeardownFailureFatal ==
    \A i \in Inst :
        (LET l == log[i] IN
         \E k \in DOMAIN l : \/ l[k] = "drop_connect_server_err"
                              \/ l[k] = "terminate_err"
                              \/ l[k] = "drop_err")
        => /\ pc[i] \in {"d_failed", "aborted"}
           /\ dcause[i] # "none"
           /\ pc[i] = "d_failed" <=> cause[i] = "none"

C8_Witness ==
    \E i, j \in Inst :
        /\ pc[i] = "d_failed" /\ Has(i, "drop_err") /\ dcause[i] = "busy"
        /\ pc[j] = "d_failed" /\ Has(j, "terminate_err")

\* C9 as stated: any two instances have different database names.
C9_NamesAlwaysDistinct ==
    \A i, j \in Inst :
        (i # j /\ name[i] # NoName /\ name[j] # NoName) => name[i] # name[j]

\* C9 as amended: two instances can draw the same name; CREATE DATABASE
\* succeeds only when no database of the name exists, and an instance whose
\* CREATE DATABASE failed is never returned, so a name never denotes the
\* databases of two instances at once.
C9_CollisionFailsCreation ==
    [][\A i \in Inst :
         /\ (~created[i] /\ created'[i])
            => owner[name[i]] = NoInst /\ owner'[name[i]] = i
         /\ Has(i, "create_err")'
            => ~created'[i] /\ pc'[i] \in DropStates \cup {"panicked", "aborted"}]_vars

C9_Witness ==
    \E i, j \in Inst :
        /\ i # j
        /\ name[i] \in Names
        /\ name[i] = name[j]
        /\ owner[name[i]] = i
        /\ Has(j, "create_err")

\* C10: a step of Drop for TestDb of instance i leaves every instance j of
\* another name as it is: j's database, the migrations applied in it, the
\* backends connected to it and j's program point are unchanged.
C10_DistinctNamesIndependent ==
    [][\A i, j \in Inst :
         (/\ pc[i] \in DropStates
          /\ pc'[i] # pc[i]
          /\ name[j] # NoName
          /\ name[j] # name[i])
         => /\ owner'[name[j]] = owner[name[j]]
            /\ applied'[name[j]] = applied[name[j]]
            /\ clients'[name[j]] = clients[name[j]]
            /\ opConn'[j] = opConn[j]
            /\ pc'[j] = pc[j]]_vars

C10_Witness ==
    \E i, j \in Inst :
        /\ name[j] # name[i]
        /\ pc[i] = "torn_down"
        /\ pc[j] = "ready"
        /\ owner[name[j]] = j
        /\ clients[name[j]] > 0

\* Every constructor call has returned or failed, and Drop for TestDb of every
\* instance built has come to its end.
RunOver == \A i \in Inst : pc[i] \in EndStates \cup {"idle"}

\* C13: when every constructor call has returned or failed and every instance
\* has been disposed, the server holds no database created by an instance and
\* no connection opened by the manager.
C13_NoOrphanSurvives ==
    RunOver => /\ dbs = {}
               /\ \A i \in Inst : ~adminConn[i] /\ ~opConn[i]

\* C14: a step of Drop for TestDb of an instance whose own CREATE DATABASE
\* did not succeed (it collided with an existing database, or failed before
\* creation) leaves every database on the server and every connection to it
\* untouched.
C14_OnlyOwnDatabaseTouched ==
    [][\A i \in Inst :
         (pc[i] \in DropStates /\ pc'[i] # pc[i] /\ ~created[i])
         => /\ owner' = owner
            /\ clients' = clients
            /\ opConn' = opConn]_vars

\* C16: CREATE DATABASE, the termination query and DROP DATABASE are issued
\* while `conn` denotes an open connection made to server_url(); the two
\* migration steps are issued while `conn` denotes a connection made to url(),
\* after the instance's CREATE DATABASE and its connection to url() succeeded.
C16_StatementsOnRightConnection ==
    [][\A i \in Inst :
         Len(log'[i]) = Len(log[i]) + 1
         => LET e == log'[i][Len(log'[i])] IN
            /\ e \in {"create", "create_err", "terminate", "terminate_err",
                      "drop", "drop_err"}
               => cur[i] = "server_url" /\ adminConn[i]
            /\ e \in {"revert", "revert_err", "apply", "apply_err"}
               => /\ cur[i] = "url"
                  /\ Has(i, "create")
                  /\ Has(i, "connect_db")]_vars

C16_Witness ==
    \E i \in Inst :
        /\ Has(i, "create")
        /\ Has(i, "apply")
        /\ Has(i, "drop")

\* C17: outside the workers of TestDb::new and of Drop for TestDb an instance
\* has no connection open: once TestDb::new has returned or panicked both of
\* its connections are closed, and once drop() has returned or panicked its
\* connection is closed.
C17_ConnectionsClosedOnReturn ==
    \A i \in Inst :
        pc[i] \in {"idle", "n_named", "ready", "d_start"} \cup EndStates
        => /\ ~adminConn[i]
           /\ ~opConn[i]
           /\ cur[i] = "none"

C17_Witness ==
    \E i, j \in Inst :
        /\ pc[i] = "ready"
        /\ Has(i, "apply")
        /\ pc[j] = "torn_down"
        /\ Has(j, "drop")

\* C18: the step of the termination query of instance i closes exactly the
\* client and operational connections to the database named name[i], leaves
\* every administrative connection open, its own included, and so DROP
\* DATABASE is issued on a connection that is still open.
C18_TerminatesExactlyOthersOfName ==
    [][\A i \in Inst :
         /\ (pc[i] = "d_admin" /\ log'[i] = Append(log[i], "terminate"))
            => /\ \A m \in Names :
                    clients'[m] = IF m = name[i] THEN 0 ELSE clients[m]
               /\ \A j \in Inst :
                    opConn'[j] = (opConn[j] /\ name[j] # name[i])
               /\ adminConn' = adminConn
               /\ adminConn'[i]
         /\ (pc[i] = "d_term" /\ pc'[i] # pc[i]) => adminConn[i]]_vars

C18_Witness ==
    \E i, j \in Inst :
        /\ i # j
        /\ pc[i] = "d_term"
        /\ adminConn[i]
        /\ name[j] = name[i]
        /\ adminConn[j]

\* C11: when TestDb::new has returned the instance to the test, the todos
\* table exists and holds no rows; after the test's insert the table holds
\* the inserted row alone, the query returns exactly that row, and when the
\* test has ended and drop() has returned, the database is gone.
C11_InsertedRowReadBack ==
    /\ (pc[Tdb] = "ready" /\ test.pc \in {"start", "connected"})
       => TableExists(name[Tdb]) /\ rows[name[Tdb]] = << >>
    /\ (pc[Tdb] = "ready" /\ test.pc \in {"inserted", "queried"})
       => TableExists(name[Tdb]) /\ rows[name[Tdb]] = <<NewTodos>>
    /\ test.pc = "queried"
       => Len(test.got) = 1 /\ test.got = <<test.sent>> /\ test.sent = NewTodos
    /\ (test.pc = "done" /\ pc[Tdb] = "torn_down")
       => name[Tdb] \notin dbs /\ Backends(name[Tdb]) = 0

C11_Witness ==
    /\ test.pc = "done"
    /\ test.got = <<NewTodos>>
    /\ pc[Tdb] = "torn_down"
    /\ Has(Tdb, "drop")

\* The digit a character stands for.
DigitValue(ch) == CHOOSE d \in 0..9 : DigitChars[d + 1] = ch

\* The number a text of decimal digits stands for.
RECURSIVE Decimal(_)
Decimal(t) ==
    IF t = << >> THEN 0
    ELSE Decimal(SubSeq(t, 1, Len(t) - 1)) * 10 + DigitValue(t[Len(t)])

\* Text t is the decimal numeral of n: digits only, no leading zero.
IsNumeral(t, n) ==
    /\ Len(t) >= 1
    /\ \A k \in 1..Len(t) : \E d \in 1..10 : DigitChars[d] = t[k]
    /\ Len(t) > 1 => t[1] # "0"
    /\ Decimal(t) = n

\* Text v starts with text h.
StartsWith(v, h) == Len(v) >= Len(h) /\ SubSeq(v, 1, Len(h)) = h

\* C12: server_url() returns "postgres://", the user, then ":" and the
\* password only when the password is not empty, then "@", the host, ":" and
\* the decimal numeral of the port; with an empty password the text holds no
\* ":@"; url() returns the text of server_url(), "/" and the database name.
C12_UrlFormat ==
    LET c == coords[Tdb]
        cred == IF c.password = << >> THEN c.user
                ELSE c.user \o <<":">> \o c.password
        head == Scheme \o cred \o <<"@">> \o c.host \o <<":">>
    IN /\ out.fn = "server_url"
          => /\ StartsWith(out.val, head)
             /\ IsNumeral(SubSeq(out.val, Len(head) + 1, Len(out.val)), c.port)
             /\ c.password = << >>
                => \A k \in 1..(Len(out.val) - 1) :
                       ~(out.val[k] = ":" /\ out.val[k + 1] = "@")
       /\ out.fn = "url"
          => LET tail == <<"/">> \o DbName(name[Tdb])
                 cut == Len(out.val) - Len(tail)
             IN /\ cut > Len(head)
                /\ SubSeq(out.val, cut + 1, Len(out.val)) = tail
                /\ StartsWith(out.val, head)
                /\ IsNumeral(SubSeq(out.val, Len(head) + 1, cut), c.port)

C12_Witness ==
    /\ out.fn = "url"
    /\ coords[Tdb].password = << >>
    /\ coords[Tdb].port = 65535
    /\ Len(out.val) > Len(Scheme)

\* C15: run_migrations issues the revert step first and the apply step only
\* after the revert step succeeded; after a successful revert nothing is
\* recorded as applied, whatever was recorded before; when it returns Ok the
\* whole migration set is applied; when the revert step fails, the apply step
\* is not issued, nothing beyond what was recorded before is applied, and the
\* Err reaches the caller.
C15_RevertAllThenApplyAll ==
    LET n == name[Tdb] IN
    /\ \A k \in 1..Len(log[Tdb]) :
          log[Tdb][k] \in {"apply", "apply_err"}
          => k > 1 /\ log[Tdb][k - 1] = "revert"
    /\ pc[Tdb] = "n_reverted" => applied[n] = {}
    /\ pc[Tdb] = "ready" => Has(Tdb, "apply") /\ applied[n] = Migs
    /\ Has(Tdb, "revert_err")
       => /\ ~Has(Tdb, "apply") /\ ~Has(Tdb, "apply_err")
          /\ cause[Tdb] = "revert"
          /\ applied[n] \subseteq out.before

C15_Witness ==
    /\ out.fn = "run_migrations"
    /\ out.before = Migs
    /\ pc[Tdb] = "ready"
    /\ applied[name[Tdb]] = Migs
    /\ log[Tdb] = <<"connect_server", "create", "connect_db", "revert", "apply">>

\* C19: a step taken while the caller holds the ready instance (a call of
\* pool(), url() or server_url(), or a client connecting or closing) leaves
\* the instance's host, port, user, password and database name unchanged,
\* leaves the instance ready, creates and drops no database, changes no
\* database's migrations and issues no statement of the manager.
C19_SteadyStateFrame ==
    [][pc[Tdb] = "ready"
       => /\ coords' = coords
          /\ name' = name
          /\ pc' = pc
          /\ owner' = owner
          /\ applied' = applied
          /\ log' = log
          /\ adminConn' = adminConn /\ opConn' = opConn]_vars

C19_Witness ==
    /\ pc[Tdb] = "ready"
    /\ out.fn = "url"
    /\ clients[name[Tdb]] > 0
    /\ log[Tdb] = <<"connect_server", "create", "connect_db", "revert", "apply">>

====
